---- MODULE Spec2Model ----
(***************************************************************************)
(* Model of the train-station booking backend (Django / DRF application    *)
(* "station"): the relational store (trains, carriages, journeys, orders,  *)
(* tickets), the administrator operations on the catalog, and the          *)
(* POST /orders request, which is split into the steps at which the code   *)
(* talks to the database, so that concurrent requests interleave.          *)
(*                                                                         *)
(* Store semantics: read-committed transactions.  A query outside a        *)
(* transaction sees the committed rows; a query inside transaction.atomic  *)
(* sees the committed rows and the transaction's own writes.  A unique     *)
(* constraint is enforced by the store on INSERT against committed rows    *)
(* (IntegrityError) and against rows other open transactions have written  *)
(* (the INSERT waits for that transaction to end).                         *)
(*                                                                         *)
(* Specifications:                                                         *)
(*   Spec        the catalog operations and one POST /orders request       *)
(*   SpecRace    concurrent POST /orders requests on a fixed catalog       *)
(*   SpecApi     the catalog API (trains, routes, journeys) by caller      *)
(*   SpecFleet   concurrent POST /carriages requests and the admin         *)
(*   SpecFilter  GET /trains with the filters of TrainViewSet.get_queryset *)
(***************************************************************************)
EXTENDS Integers, Sequences, FiniteSets, TLC

\* ------------------------------------------------------------------ bounds
MaxTrains == 2
MaxCarriages == 1
MaxJourneys == 1
MaxOrders == 2
MaxSeats == 2
MaxTickets == 2
MaxNumber == 1
NumRequests == 2
NumUsers == 2
MaxTime == 2
MaxStations == 2
MaxRoutes == 2
MaxFleet == 2
MaxLen == 2
MaxRows == 1

TrainIds == 1..MaxTrains
CarriageIds == 1..MaxCarriages
JourneyIds == 1..MaxJourneys
OrderIds == 1..MaxOrders
Users == 1..NumUsers
Requests == 1..NumRequests
\* seat counts an administrator may give a carriage (models.py:65 sets no minimum)
CarriageSeats == 0..MaxSeats
\* carriage numbers (models.py:64: MinValueValidator(1))
CarriageNumbers == 1..MaxNumber
\* seat numbers a ticket request may carry (0 is below every range)
SeatInputs == 0..MaxSeats

StationIds == 1..MaxStations
\* Carriage pks and carriage numbers where carriages are created concurrently
FleetIds == 1..MaxFleet
FleetNumbers == 1..MaxFleet
\* who sends a catalog request: nobody authenticated, an authenticated user who
\* is not staff, a staff user
Callers == {"anonymous", "user", "admin"}

\* the instants a departure or an arrival may be at
Times == 0..MaxTime

\* A nullable SQL integer is the set of its values: NULL is the empty set
NULL == {}

VARIABLES
    trains,        \* set of Train pks
    carriages,     \* Carriage rows: pk -> [train, number, seats]
    journeys,      \* Journey rows: pk -> [train, departure_time, arrival_time]
    orders,        \* committed Order rows: pk -> [user]
    tickets,       \* committed Ticket rows: set of [id, seat, carriage, journey, order]
    nextTrain, nextCarriage, nextJourney, nextOrder,   \* pk sequences
    req,           \* per request slot: the POST /orders request being served
    tx,            \* per request slot: the rows written by its open transaction,
                   \* [orders: pk -> Order row, tickets: set of Ticket rows]
    routes,        \* Route rows: pk -> [from_station, to_station]
    creq,          \* per request slot: the POST /carriages request being served
    reply,         \* the response to the last catalog request
    listing        \* a GET /trains request: the rows, the filters and the result

vars == <<trains, carriages, journeys, orders, tickets,
          nextTrain, nextCarriage, nextJourney, nextOrder, req, tx,
          routes, creq, reply, listing>>

\* the state of the catalog requests, which the booking steps leave alone
api == <<routes, creq, reply, listing>>

\* the state of the booking requests, which the catalog requests leave alone
booking == <<orders, tickets, nextOrder, req, tx>>

catalog == <<trains, carriages, journeys, nextTrain, nextCarriage, nextJourney>>

\* ------------------------------------------------------------------ helpers
RECURSIVE SumSeats(_, _)
SumSeats(rows, S) ==
    IF S = {} THEN 0
    ELSE LET c == CHOOSE x \in S : TRUE
         IN rows[c].seats + SumSeats(rows, S \ {c})

CarriagesOf(t) == {c \in DOMAIN carriages : carriages[c].train = t}

\* the number of carriages of train t
capacity_counts_carriages(t) == Cardinality(CarriagesOf(t))

\* Train.capacity: sum(carriage.seats for carriage in self.carriages.all())
capacity(t) == SumSeats(carriages, CarriagesOf(t))

\* Count("id") of the tickets of journey j
TicketCount(j) == Cardinality({t \in tickets : t.journey = j})

\* JourneyViewSet.get_queryset, the annotation of journey j:
\* Sum("train__carriages__seats") - Coalesce(Subquery(tickets count), Value(0)).
\* Sum over the LEFT JOIN of a train without carriages is NULL, and NULL - n is NULL.
tickets_available(j) ==
    IF CarriagesOf(journeys[j].train) = {} THEN NULL
    ELSE {capacity(journeys[j].train) - TicketCount(j)}

\* Carriage.is_seat_number_valid, on a loaded Carriage object with `seats`
is_seat_number_valid(seats, seat_number) == 1 <= seat_number /\ seat_number <= seats

\* Ticket.objects.filter(carriage=, seat=, journey=).exists() over the rows visible
TicketExists(rows, c, s, j) ==
    \E t \in rows : t.carriage = c /\ t.seat = s /\ t.journey = j

\* Ticket.validate_ticket: the error it raises, or "ok"
validate_ticket(rows, seat, c, seats, j) ==
    IF TicketExists(rows, c, seat, j) THEN "SeatAlreadyTaken"
    ELSE IF ~is_seat_number_valid(seats, seat) THEN "SeatOutOfRange"
    ELSE "ok"

\* a table with no rows
NoRows == [k \in {} |-> 0]

\* INSERT / UPDATE of the row with primary key k
Put(table, k, row) == [x \in DOMAIN table \cup {k} |-> IF x = k THEN row ELSE table[x]]

\* DELETE of the rows with primary keys in K
Drop(table, K) == [x \in DOMAIN table \ K |-> table[x]]

\* a transaction that has written nothing
NoTx == [orders |-> NoRows, tickets |-> {}]

\* a slot serving no request.  pc: the step the request is at; body: the ticket
\* requests; loaded: the seats of the Carriage objects loaded by is_valid();
\* idx: the ticket being handled; order: the pk of the Order it created (0: none);
\* err, code, at: the exception that ended it, its reason, the step that raised it
Idle == [pc |-> "idle", user |-> 0, body |-> <<>>, loaded |-> <<>>, idx |-> 0,
         order |-> 0, err |-> "none", code |-> "none", at |-> "none"]

\* a slot serving no POST /carriages request.  pc: the step the request is at;
\* number, seats, train: the validated body; pk: the row it inserted (0: none);
\* err, code: the exception that ended it and its reason
IdleCarriage == [pc |-> "idle", number |-> 0, seats |-> 0, train |-> 0, pk |-> 0,
                 err |-> "none", code |-> "none"]

\* no catalog request answered yet.  op: the endpoint and method; caller: who sent
\* it; status: the HTTP status; code: the reason of a failure; data: the pks returned
NoReply == [op |-> "none", caller |-> "none", status |-> 0, code |-> "none", data |-> {}]

\* no GET /trains request under evaluation.  rows: the Train rows joined with their
\* TrainType; number, name, train_type_name: the query parameters (the empty set:
\* not given); result: the pks returned
NoListing == [pc |-> "none", rows |-> <<>>, number |-> {}, name |-> {},
              train_type_name |-> {}, result |-> {}]

\* the catalog requests before any was made
InitApi ==
    /\ routes = NoRows
    /\ creq = [p \in Requests |-> IdleCarriage]
    /\ reply = NoReply
    /\ listing = NoListing

\* the booking tables and requests before any order was placed
InitBooking ==
    /\ orders = NoRows
    /\ tickets = {}
    /\ nextOrder = 1
    /\ req = [p \in Requests |-> Idle]
    /\ tx = [p \in Requests |-> NoTx]

Init ==
    /\ trains = {}
    /\ carriages = NoRows
    /\ journeys = NoRows
    /\ orders = NoRows
    /\ tickets = {}
    /\ nextTrain = 1
    /\ nextCarriage = 1
    /\ nextJourney = 1
    /\ nextOrder = 1
    /\ req = [p \in Requests |-> Idle]
    /\ tx = [p \in Requests |-> NoTx]
    /\ InitApi

\* ------------------------------------------------------------ the catalog
\* a delete that leaves the referencing tickets in place
DO_NOTHING(rows, cs, js) == rows

\* Ticket.carriage and Ticket.journey are on_delete=models.CASCADE: the tickets
\* left when the carriages cs and the journeys js are deleted
CASCADE(rows, cs, js) == {x \in rows : x.carriage \notin cs /\ x.journey \notin js}

\* Rows written by open transactions that reference carriage c / journey j:
\* the store makes a DELETE of the referenced row wait for them.
OpenRefCarriage(c) == \E p \in Requests : \E t \in tx[p].tickets : t.carriage = c
OpenRefJourney(j) == \E p \in Requests : \E t \in tx[p].tickets : t.journey = j

\* Train is created (API, admin); pks come from a sequence and are not reused
CreateTrain ==
    /\ nextTrain <= MaxTrains
    /\ trains' = trains \cup {nextTrain}
    /\ nextTrain' = nextTrain + 1
    /\ UNCHANGED <<carriages, journeys, orders, tickets,
                   nextCarriage, nextJourney, nextOrder, req, tx>>
    /\ UNCHANGED api

\* Carriage.validate_carriage_number: a carriage with this number exists for the train
CarriageNumberTaken(number, train) ==
    \E c \in DOMAIN carriages :
        carriages[c].number = number /\ carriages[c].train = train

\* POST /carriages (CarriageSerializer.validate, then INSERT under unique_carriage_number)
CreateCarriage(number, seats, train) ==
    /\ nextCarriage <= MaxCarriages
    /\ train \in trains
    /\ ~CarriageNumberTaken(number, train)
    /\ carriages' = Put(carriages, nextCarriage,
                        [train |-> train, number |-> number, seats |-> seats])
    /\ nextCarriage' = nextCarriage + 1
    /\ UNCHANGED <<trains, journeys, orders, tickets,
                   nextTrain, nextJourney, nextOrder, req, tx>>
    /\ UNCHANGED api

\* admin change form of a Carriage: the seat count is replaced; nothing in
\* Carriage looks at the tickets already sold for it
AdminUpdateCarriage(c, seats) ==
    /\ c \in DOMAIN carriages
    /\ seats # carriages[c].seats
    /\ carriages' = [carriages EXCEPT ![c].seats = seats]
    /\ UNCHANGED <<trains, journeys, orders, tickets,
                   nextTrain, nextCarriage, nextJourney, nextOrder, req, tx>>
    /\ UNCHANGED api

\* admin delete of a Carriage: Ticket.carriage is on_delete=CASCADE
AdminDeleteCarriage(c) ==
    /\ c \in DOMAIN carriages
    /\ ~OpenRefCarriage(c)
    /\ carriages' = Drop(carriages, {c})
    /\ tickets' = CASCADE(tickets, {c}, {})
    /\ UNCHANGED <<trains, journeys, orders,
                   nextTrain, nextCarriage, nextJourney, nextOrder, req, tx>>
    /\ UNCHANGED api

\* a journey saved without the check of its window
clean_skipped(departure_time, arrival_time) == "ok"

\* Journey.clean, called by full_clean() from Journey.save(): the error it
\* raises, or "ok"
clean(departure_time, arrival_time) ==
    IF departure_time >= arrival_time THEN "InvalidTimeWindow" ELSE "ok"

\* POST /journeys (JourneySerializer.create)
CreateJourney(train, departure_time, arrival_time) ==
    /\ nextJourney <= MaxJourneys
    /\ train \in trains
    /\ clean(departure_time, arrival_time) = "ok"
    /\ journeys' = Put(journeys, nextJourney,
                       [train |-> train, departure_time |-> departure_time,
                        arrival_time |-> arrival_time])
    /\ nextJourney' = nextJourney + 1
    /\ UNCHANGED <<trains, carriages, orders, tickets,
                   nextTrain, nextCarriage, nextOrder, req, tx>>
    /\ UNCHANGED api

\* PUT / PATCH /journeys/{id} (ModelViewSet update): the fields are replaced and
\* the row is saved
UpdateJourney(j, train, departure_time, arrival_time) ==
    /\ j \in DOMAIN journeys
    /\ train \in trains
    /\ clean(departure_time, arrival_time) = "ok"
    /\ journeys[j] # [train |-> train, departure_time |-> departure_time,
                      arrival_time |-> arrival_time]
    /\ journeys' = [journeys EXCEPT ![j] =
                        [train |-> train, departure_time |-> departure_time,
                         arrival_time |-> arrival_time]]
    /\ UNCHANGED <<trains, carriages, orders, tickets,
                   nextTrain, nextCarriage, nextJourney, nextOrder, req, tx>>
    /\ UNCHANGED api

\* DELETE /journeys/{id} (ModelViewSet destroy): Ticket.journey is on_delete=CASCADE
DeleteJourney(j) ==
    /\ j \in DOMAIN journeys
    /\ ~OpenRefJourney(j)
    /\ journeys' = Drop(journeys, {j})
    /\ tickets' = CASCADE(tickets, {}, {j})
    /\ UNCHANGED <<trains, carriages, orders,
                   nextTrain, nextCarriage, nextJourney, nextOrder, req, tx>>
    /\ UNCHANGED api

\* admin delete of a Train: Carriage.train and Journey.train are on_delete=CASCADE,
\* and the tickets of those carriages and journeys go with them
AdminDeleteTrain(t) ==
    LET cs == CarriagesOf(t)
        js == {j \in DOMAIN journeys : journeys[j].train = t}
    IN /\ t \in trains
       /\ \A c \in cs : ~OpenRefCarriage(c)
       /\ \A j \in js : ~OpenRefJourney(j)
       /\ trains' = trains \ {t}
       /\ carriages' = Drop(carriages, cs)
       /\ journeys' = Drop(journeys, js)
       /\ tickets' = CASCADE(tickets, cs, js)
       /\ UNCHANGED <<orders, nextTrain, nextCarriage, nextJourney, nextOrder, req, tx>>
       /\ UNCHANGED api

\* ------------------------------------------------------------ POST /orders
\* The request bodies: `tickets` is a list of {seat, carriage, journey}
TicketRequests == [carriage : CarriageIds, seat : SeatInputs, journey : JourneyIds]
Bodies == UNION {[1..n -> TicketRequests] : n \in 0..MaxTickets}

\* The response to a failed request.  A rest_framework ValidationError is an
\* APIException and is answered 400; django.core.exceptions.ValidationError and
\* the store's errors are not, nothing in the view or the serializer catches
\* them, and they leave the request as unhandled (500).
Failed(r, err, code) ==
    [r EXCEPT !.pc = "failed", !.err = err, !.code = code, !.at = r.pc]

\* the tables with the rows a transaction has written
Merged(committed, written) ==
    [orders |-> [k \in DOMAIN committed.orders \cup DOMAIN written.orders |->
                    IF k \in DOMAIN written.orders THEN written.orders[k]
                    ELSE committed.orders[k]],
     tickets |-> committed.tickets \cup written.tickets]

\* a bug: the rows written before the exception stay
RolledBackKeepsWrites(committed, written) == Merged(committed, written)

\* transaction.atomic() left by an exception: the transaction's writes are discarded
RolledBack(committed, written) == committed

\* a bug: the store has no unique constraint on Ticket
unique_ticket_missing(rows, c, s, j) == FALSE

\* Ticket.Meta unique_ticket: a row with this (carriage, seat, journey) stands in rows
unique_ticket(rows, c, s, j) ==
    \E t \in rows : <<t.carriage, t.seat, t.journey>> = <<c, s, j>>

\* the committed Order and Ticket tables
Committed == [orders |-> orders, tickets |-> tickets]

\* the list of tickets accepted with no element
allow_empty_list == TRUE

\* OrderSerializer.tickets: TicketSerializer(many=True, allow_empty=False)
allow_empty == FALSE

\* OrderViewSet.create: serializer.is_valid() starts.  OrderSerializer.tickets is
\* allow_empty=False; created_at is declared without read_only, so it is required.
\* Field errors are collected and raised together as one ValidationError: the
\* ticket queries made before raising change nothing, so the request fails here.
PlaceOrder(p, u, body, has_created_at) ==
    /\ req[p].pc = "idle"
    /\ req' = [req EXCEPT ![p] =
         IF body = <<>> /\ ~allow_empty
         THEN Failed([Idle EXCEPT !.pc = "validate", !.user = u],
                     "ValidationError", "EmptyOrder")
         ELSE IF ~has_created_at
              THEN Failed([Idle EXCEPT !.pc = "validate", !.user = u],
                          "ValidationError", "Required")
         ELSE IF body = <<>> THEN [Idle EXCEPT !.pc = "create", !.user = u]
         ELSE [Idle EXCEPT !.pc = "validate", !.user = u, !.body = body, !.idx = 1]]
    /\ UNCHANGED <<trains, carriages, journeys, orders, tickets,
                   nextTrain, nextCarriage, nextJourney, nextOrder, tx>>
    /\ UNCHANGED api

\* is_valid(), ticket idx: PrimaryKeyRelatedField loads the Carriage and the
\* Journey (committed rows); TicketSerializer.validate calls validate_ticket with
\* the loaded objects and rest_framework's ValidationError.  The loaded Carriage
\* (its seats as read now) stays in validated_data.
Validate(p) ==
    LET r == req[p]
        t == r.body[r.idx]
        v == validate_ticket(tickets, t.seat, t.carriage, carriages[t.carriage].seats, t.journey)
        last == r.idx = Len(r.body)
    IN /\ r.pc = "validate"
       /\ req' = [req EXCEPT ![p] =
            IF t.carriage \notin DOMAIN carriages \/ t.journey \notin DOMAIN journeys
            THEN Failed(r, "ValidationError", "DoesNotExist")
            ELSE IF v # "ok" THEN Failed(r, "ValidationError", v)
            ELSE [r EXCEPT !.loaded = Append(r.loaded, carriages[t.carriage].seats),
                           !.idx = IF last THEN 0 ELSE r.idx + 1,
                           !.pc = IF last THEN "create" ELSE "validate"]]
       /\ UNCHANGED <<trains, carriages, journeys, orders, tickets,
                      nextTrain, nextCarriage, nextJourney, nextOrder, tx>>
       /\ UNCHANGED api

\* OrderSerializer.create: transaction.atomic() is entered and
\* Order.objects.create(user=request.user) writes the Order row in it
CreateOrder(p) ==
    /\ req[p].pc = "create"
    /\ nextOrder <= MaxOrders
    /\ req' = [req EXCEPT ![p].pc = IF req[p].body = <<>> THEN "commit" ELSE "clean",
                          ![p].idx = 1, ![p].order = nextOrder]
    /\ tx' = [tx EXCEPT ![p].orders = Put(NoRows, nextOrder, [user |-> req[p].user])]
    /\ nextOrder' = nextOrder + 1
    /\ UNCHANGED <<trains, carriages, journeys, orders, tickets,
                   nextTrain, nextCarriage, nextJourney>>
    /\ UNCHANGED api

\* Ticket.objects.create -> Ticket.save -> full_clean(), ticket idx, inside the
\* transaction: the foreign keys are looked up, Ticket.clean calls validate_ticket
\* with django's ValidationError on the rows the transaction sees and on the
\* Carriage object loaded by is_valid() (validate_constraints repeats the
\* existence query).  The exception leaves transaction.atomic(): rollback.
Clean(p) ==
    LET r == req[p]
        t == r.body[r.idx]
        v == validate_ticket(tickets \cup tx[p].tickets, t.seat, t.carriage,
                             r.loaded[r.idx], t.journey)
        gone == t.carriage \notin DOMAIN carriages \/ t.journey \notin DOMAIN journeys
    IN /\ r.pc = "clean"
       /\ IF gone \/ v # "ok"
          THEN /\ req' = [req EXCEPT ![p] =
                    Failed(r, "DjangoValidationError", IF gone THEN "DoesNotExist" ELSE v)]
               /\ orders' = RolledBack(Committed, tx[p]).orders
               /\ tickets' = RolledBack(Committed, tx[p]).tickets
               /\ tx' = [tx EXCEPT ![p] = NoTx]
          ELSE /\ req' = [req EXCEPT ![p].pc = "insert"]
               /\ UNCHANGED <<orders, tickets, tx>>
       /\ UNCHANGED <<trains, carriages, journeys,
                      nextTrain, nextCarriage, nextJourney, nextOrder>>
       /\ UNCHANGED api

\* the INSERT of p's current ticket waits for q: q's open transaction has
\* written a row with the same (carriage, seat, journey)
WaitsFor(p, q) ==
    /\ p # q
    /\ req[p].pc = "insert"
    /\ unique_ticket(tx[q].tickets, req[p].body[req[p].idx].carriage,
                     req[p].body[req[p].idx].seat, req[p].body[req[p].idx].journey)

Blocked(p) == \E q \in Requests : WaitsFor(p, q)

\* the transactions p's INSERT waits for, directly or through others
RECURSIVE WaitChain(_)
WaitChain(S) ==
    LET N == S \cup {q \in Requests : \E x \in S : WaitsFor(x, q)}
    IN IF N = S THEN S ELSE WaitChain(N)

\* Ticket.save -> super().save(): the INSERT of ticket idx.  The store checks the
\* foreign keys and unique_ticket; IntegrityError leaves transaction.atomic().
Insert(p) ==
    LET r == req[p]
        t == r.body[r.idx]
        row == [id |-> <<r.order, r.idx>>, seat |-> t.seat, carriage |-> t.carriage,
                journey |-> t.journey, order |-> r.order]
        gone == t.carriage \notin DOMAIN carriages \/ t.journey \notin DOMAIN journeys
        last == r.idx = Len(r.body)
    IN /\ r.pc = "insert"
       /\ ~Blocked(p)
       /\ IF gone \/ unique_ticket(tickets \cup tx[p].tickets, t.carriage, t.seat, t.journey)
          THEN /\ req' = [req EXCEPT ![p] =
                    Failed(r, "IntegrityError",
                           IF gone THEN "DoesNotExist" ELSE "SeatAlreadyTaken")]
               /\ orders' = RolledBack(Committed, tx[p]).orders
               /\ tickets' = RolledBack(Committed, tx[p]).tickets
               /\ tx' = [tx EXCEPT ![p] = NoTx]
          ELSE /\ req' = [req EXCEPT ![p].pc = IF last THEN "commit" ELSE "clean",
                                     ![p].idx = IF last THEN 0 ELSE r.idx + 1]
               /\ tx' = [tx EXCEPT ![p].tickets = tx[p].tickets \cup {row}]
               /\ UNCHANGED <<orders, tickets>>
       /\ UNCHANGED <<trains, carriages, journeys,
                      nextTrain, nextCarriage, nextJourney, nextOrder>>
       /\ UNCHANGED api

\* transactions waiting for each other in a cycle: the store ends one of them
\* with an error (OperationalError), which leaves transaction.atomic()
DeadlockAbort(p) ==
    /\ \E q \in Requests : WaitsFor(p, q) /\ p \in WaitChain({q})
    /\ req' = [req EXCEPT ![p] = Failed(req[p], "OperationalError", "Deadlock")]
    /\ orders' = RolledBack(Committed, tx[p]).orders
    /\ tickets' = RolledBack(Committed, tx[p]).tickets
    /\ tx' = [tx EXCEPT ![p] = NoTx]
    /\ UNCHANGED <<trains, carriages, journeys,
                   nextTrain, nextCarriage, nextJourney, nextOrder>>
    /\ UNCHANGED api

\* `return order` leaves transaction.atomic(): the Order and its Tickets are committed
Commit(p) ==
    /\ req[p].pc = "commit"
    /\ orders' = Merged(Committed, tx[p]).orders
    /\ tickets' = Merged(Committed, tx[p]).tickets
    /\ tx' = [tx EXCEPT ![p] = NoTx]
    /\ req' = [req EXCEPT ![p].pc = "done"]
    /\ UNCHANGED <<trains, carriages, journeys,
                   nextTrain, nextCarriage, nextJourney, nextOrder>>
    /\ UNCHANGED api

\* the response is sent (201 with the order, 400, or 500); the slot serves the next request
Respond(p) ==
    /\ req[p].pc \in {"done", "failed"}
    /\ req' = [req EXCEPT ![p] = Idle]
    /\ UNCHANGED <<trains, carriages, journeys, orders, tickets,
                   nextTrain, nextCarriage, nextJourney, nextOrder, tx>>
    /\ UNCHANGED api

\* GET /orders without the filter on the owner
OrderViewSet_all(user) == DOMAIN orders

\* OrderViewSet.get_queryset: Order.objects.filter(user=self.request.user),
\* the pks of the committed orders listed to the authenticated caller
OrderViewSet_get_queryset(user) == {o \in DOMAIN orders : orders[o].user = user}

\* ------------------------------------------------------------ specification
\* the catalog operations (administrators)
CatalogStep ==
    \/ CreateTrain
    \/ \E n \in CarriageNumbers, s \in CarriageSeats, t \in TrainIds : CreateCarriage(n, s, t)
    \/ \E c \in CarriageIds, s \in CarriageSeats : AdminUpdateCarriage(c, s)
    \/ \E c \in CarriageIds : AdminDeleteCarriage(c)
    \/ \E t \in TrainIds, d, a \in Times : CreateJourney(t, d, a)
    \/ \E j \in JourneyIds, t \in TrainIds, d, a \in Times : UpdateJourney(j, t, d, a)
    \/ \E j \in JourneyIds : DeleteJourney(j)
    \/ \E t \in TrainIds : AdminDeleteTrain(t)

\* the steps of one POST /orders request served in slot p
RequestStep(p) ==
    \/ \E u \in Users, b \in Bodies, ca \in BOOLEAN : PlaceOrder(p, u, b, ca)
    \/ Validate(p)
    \/ CreateOrder(p)
    \/ Clean(p)
    \/ Insert(p)
    \/ Commit(p)
    \/ Respond(p)

\* Spec: the catalog changes while requests are served one at a time (slot 1),
\* every catalog operation interleaved with every step of the request.
Next == CatalogStep \/ RequestStep(1)

Spec == Init /\ [][Next]_vars

\* ------------------------------------------------------ the catalog API
SAFE_METHODS == {"GET", "HEAD", "OPTIONS"}

\* rest_framework's IsAuthenticated, the permission of OrderViewSet
IsAuthenticated(caller) == caller # "anonymous"

\* station.permissions.IsAdminOrIfAuthenticatedReadOnly: reads for every
\* authenticated caller, everything for staff
IsAdminOrIfAuthenticatedReadOnly(caller, method) ==
    \/ method \in SAFE_METHODS /\ caller # "anonymous"
    \/ caller = "admin"

\* every viewset guarded as OrderViewSet is
permission_classes_authenticated(view) == "IsAuthenticated"

\* the permission_classes attribute of each viewset
permission_classes(view) ==
    IF view = "orders" THEN "IsAuthenticated" ELSE "IsAdminOrIfAuthenticatedReadOnly"

\* the verdict on a request before its handler runs: "ok", or the refusal
\* (401 for a caller who is not authenticated, 403 for one who is)
check_permissions(view, caller, method) ==
    LET allowed == IF permission_classes(view) = "IsAuthenticated"
                   THEN IsAuthenticated(caller)
                   ELSE IsAdminOrIfAuthenticatedReadOnly(caller, method)
    IN IF allowed THEN "ok"
       ELSE IF caller = "anonymous" THEN "Unauthorized" ELSE "Forbidden"

\* the response to a refused request
Denied(op, caller, verdict) ==
    [op |-> op, caller |-> caller, status |-> IF verdict = "Unauthorized" THEN 401 ELSE 403,
     code |-> verdict, data |-> {}]

\* the response to a request that failed with the given status and reason
Error(op, caller, status, code) ==
    [op |-> op, caller |-> caller, status |-> status, code |-> code, data |-> {}]

\* the response to a request that succeeded, with the pks it returns
Success(op, caller, status, data) ==
    [op |-> op, caller |-> caller, status |-> status, code |-> "none", data |-> data]

\* POST /trains (TrainViewSet, CreateModelMixin)
PostTrain(caller) ==
    LET verdict == check_permissions("trains", caller, "POST")
    IN /\ IF verdict # "ok"
          THEN /\ reply' = Denied("PostTrain", caller, verdict)
               /\ UNCHANGED <<trains, nextTrain>>
          ELSE /\ nextTrain <= MaxTrains
               /\ trains' = trains \cup {nextTrain}
               /\ nextTrain' = nextTrain + 1
               /\ reply' = Success("PostTrain", caller, 201, {nextTrain})
       /\ UNCHANGED <<carriages, journeys, nextCarriage, nextJourney, routes, creq, listing>>
       /\ UNCHANGED booking

\* GET /trains (TrainViewSet, ListModelMixin) without filters
ListTrains(caller) ==
    LET verdict == check_permissions("trains", caller, "GET")
    IN /\ reply' = IF verdict # "ok" THEN Denied("ListTrains", caller, verdict)
                   ELSE Success("ListTrains", caller, 200, trains)
       /\ UNCHANGED <<catalog, routes, creq, listing>>
       /\ UNCHANGED booking

\* GET /trains/{id} (TrainViewSet, RetrieveModelMixin)
RetrieveTrain(caller, pk) ==
    LET verdict == check_permissions("trains", caller, "GET")
    IN /\ reply' = IF verdict # "ok" THEN Denied("RetrieveTrain", caller, verdict)
                   ELSE IF pk \notin trains THEN Error("RetrieveTrain", caller, 404, "NotFound")
                   ELSE Success("RetrieveTrain", caller, 200, {pk})
       /\ UNCHANGED <<catalog, routes, creq, listing>>
       /\ UNCHANGED booking

\* a route serializer that accepts every pair of stations
RouteSerializer_accepts(from_station, to_station) == "ok"

\* RouteSerializer.validate: the error it raises, or "ok"
RouteSerializer_validate(from_station, to_station) ==
    IF from_station = to_station THEN "InvalidRoute" ELSE "ok"

\* POST /routes (RouteViewSet, CreateModelMixin): is_valid() runs
\* RouteSerializer.validate, then the row is inserted
PostRoute(caller, from_station, to_station) ==
    LET verdict == check_permissions("routes", caller, "POST")
        v == RouteSerializer_validate(from_station, to_station)
        pk == Cardinality(DOMAIN routes) + 1
    IN /\ IF verdict # "ok"
          THEN /\ reply' = Denied("PostRoute", caller, verdict)
               /\ UNCHANGED routes
          ELSE IF v # "ok"
          THEN /\ reply' = Error("PostRoute", caller, 400, v)
               /\ UNCHANGED routes
          ELSE /\ pk <= MaxRoutes
               /\ routes' = Put(routes, pk, [from_station |-> from_station,
                                             to_station |-> to_station])
               /\ reply' = Success("PostRoute", caller, 201, {pk})
       /\ UNCHANGED <<catalog, creq, listing>>
       /\ UNCHANGED booking

\* POST /journeys (JourneyViewSet create): is_valid() looks the train up,
\* JourneySerializer.create calls Journey.objects.create, whose save() runs
\* full_clean(); the ValidationError of Journey.clean is django's and is not
\* handled by the view (status 500)
PostJourney(caller, train, departure_time, arrival_time) ==
    LET verdict == check_permissions("journeys", caller, "POST")
        v == clean(departure_time, arrival_time)
    IN /\ IF verdict # "ok"
          THEN /\ reply' = Denied("PostJourney", caller, verdict)
               /\ UNCHANGED <<journeys, nextJourney>>
          ELSE IF train \notin trains
          THEN /\ reply' = Error("PostJourney", caller, 400, "DoesNotExist")
               /\ UNCHANGED <<journeys, nextJourney>>
          ELSE IF v # "ok"
          THEN /\ reply' = Error("PostJourney", caller, 500, v)
               /\ UNCHANGED <<journeys, nextJourney>>
          ELSE /\ nextJourney <= MaxJourneys
               /\ journeys' = Put(journeys, nextJourney,
                                  [train |-> train, departure_time |-> departure_time,
                                   arrival_time |-> arrival_time])
               /\ nextJourney' = nextJourney + 1
               /\ reply' = Success("PostJourney", caller, 201, {nextJourney})
       /\ UNCHANGED <<trains, carriages, nextTrain, nextCarriage, routes, creq, listing>>
       /\ UNCHANGED booking

\* a field of a partial update: absent (the empty set) or given (a singleton)
Optional(S) == {{}} \cup {{x} : x \in S}

\* the value of a field after an update: the given one, or the stored one
Updated(field, stored) == IF field = {} THEN stored ELSE CHOOSE x \in field : TRUE

\* the bodies of PATCH /journeys/{id}
JourneyPatches == [train : Optional(TrainIds), departure_time : Optional(Times),
                   arrival_time : Optional(Times)]

\* UpdateModelMixin.update on a journey: permissions, get_object(), is_valid(),
\* then ModelSerializer.update sets the given fields and calls Journey.save().
\* The response and the Journey table after it.
JourneyUpdate(op, method, caller, j, data) ==
    LET verdict == check_permissions("journeys", caller, method)
        row == [train |-> Updated(data.train, journeys[j].train),
                departure_time |-> Updated(data.departure_time, journeys[j].departure_time),
                arrival_time |-> Updated(data.arrival_time, journeys[j].arrival_time)]
        v == clean(row.departure_time, row.arrival_time)
    IN IF verdict # "ok"
       THEN [reply |-> Denied(op, caller, verdict), journeys |-> journeys]
       ELSE IF j \notin DOMAIN journeys
       THEN [reply |-> Error(op, caller, 404, "NotFound"), journeys |-> journeys]
       ELSE IF row.train \notin trains
       THEN [reply |-> Error(op, caller, 400, "DoesNotExist"), journeys |-> journeys]
       ELSE IF v # "ok"
       THEN [reply |-> Error(op, caller, 500, v), journeys |-> journeys]
       ELSE [reply |-> Success(op, caller, 200, {j}),
             journeys |-> [journeys EXCEPT ![j] = row]]

\* PUT /journeys/{id}: every field is given
PutJourney(caller, j, train, departure_time, arrival_time) ==
    LET out == JourneyUpdate("PutJourney", "PUT", caller, j,
                             [train |-> {train}, departure_time |-> {departure_time},
                              arrival_time |-> {arrival_time}])
    IN /\ reply' = out.reply
       /\ journeys' = out.journeys
       /\ UNCHANGED <<trains, carriages, nextTrain, nextCarriage, nextJourney,
                      routes, creq, listing>>
       /\ UNCHANGED booking

\* PATCH /journeys/{id}: any of the fields is given
PatchJourney(caller, j, data) ==
    LET out == JourneyUpdate("PatchJourney", "PATCH", caller, j, data)
    IN /\ reply' = out.reply
       /\ journeys' = out.journeys
       /\ UNCHANGED <<trains, carriages, nextTrain, nextCarriage, nextJourney,
                      routes, creq, listing>>
       /\ UNCHANGED booking

\* the requests of the catalog API
NextApi ==
    \/ \E c \in Callers : PostTrain(c)
    \/ \E c \in Callers : ListTrains(c)
    \/ \E c \in Callers, pk \in TrainIds : RetrieveTrain(c, pk)
    \/ \E c \in Callers, f, t \in StationIds : PostRoute(c, f, t)
    \/ \E c \in Callers, t \in TrainIds, d, a \in Times : PostJourney(c, t, d, a)
    \/ \E c \in Callers, j \in JourneyIds, t \in TrainIds, d, a \in Times :
          PutJourney(c, j, t, d, a)
    \/ \E c \in Callers, j \in JourneyIds, data \in JourneyPatches : PatchJourney(c, j, data)

\* the catalog API on an empty database, no order being placed
SpecApi == Init /\ [][NextApi]_vars

\* ------------------------------------------- POST /carriages, step by step
\* Carriage.Meta.constraints: UniqueConstraint(fields=["number", "train"],
\* name="unique_carriage_number"), the store's verdict on an INSERT
unique_carriage_number(number, train) ==
    \E c \in DOMAIN carriages :
        carriages[c].number = number /\ carriages[c].train = train

\* a POST /carriages request that ended with an exception
FailedCarriage(r, err, code) == [r EXCEPT !.pc = "failed", !.err = err, !.code = code]

\* POST /carriages arrives (CarriageViewSet, CreateModelMixin)
PostCarriage(p, number, seats, train) ==
    /\ creq[p].pc = "idle"
    /\ creq' = [creq EXCEPT ![p] = [IdleCarriage EXCEPT !.pc = "validate", !.number = number,
                                                        !.seats = seats, !.train = train]]
    /\ UNCHANGED <<catalog, routes, reply, listing>>
    /\ UNCHANGED booking

\* is_valid(): PrimaryKeyRelatedField looks the train up, then
\* CarriageSerializer.validate calls Carriage.validate_carriage_number with
\* rest_framework's ValidationError
ValidateCarriage(p) ==
    LET r == creq[p]
    IN /\ r.pc = "validate"
       /\ creq' = [creq EXCEPT ![p] =
            IF r.train \notin trains THEN FailedCarriage(r, "ValidationError", "DoesNotExist")
            ELSE IF CarriageNumberTaken(r.number, r.train)
            THEN FailedCarriage(r, "ValidationError", "DuplicateCarriageNumber")
            ELSE [r EXCEPT !.pc = "insert"]]
       /\ UNCHANGED <<catalog, routes, reply, listing>>
       /\ UNCHANGED booking

\* serializer.save(): Carriage.objects.create issues the INSERT (autocommit); the
\* store checks the foreign key and unique_carriage_number and raises
\* IntegrityError, which nothing catches
InsertCarriage(p) ==
    LET r == creq[p]
    IN /\ r.pc = "insert"
       /\ IF r.train \notin trains
          THEN /\ creq' = [creq EXCEPT ![p] = FailedCarriage(r, "IntegrityError", "ForeignKey")]
               /\ UNCHANGED <<carriages, nextCarriage>>
          ELSE IF unique_carriage_number(r.number, r.train)
          THEN /\ creq' = [creq EXCEPT ![p] =
                              FailedCarriage(r, "IntegrityError", "unique_carriage_number")]
               /\ UNCHANGED <<carriages, nextCarriage>>
          ELSE /\ nextCarriage <= MaxFleet
               /\ carriages' = Put(carriages, nextCarriage,
                                   [train |-> r.train, number |-> r.number, seats |-> r.seats])
               /\ nextCarriage' = nextCarriage + 1
               /\ creq' = [creq EXCEPT ![p].pc = "done", ![p].pk = nextCarriage]
       /\ UNCHANGED <<trains, journeys, nextTrain, nextJourney, routes, reply, listing>>
       /\ UNCHANGED booking

\* the response is sent and the slot is free again
RespondCarriage(p) ==
    /\ creq[p].pc \in {"done", "failed"}
    /\ creq' = [creq EXCEPT ![p] = IdleCarriage]
    /\ UNCHANGED <<catalog, routes, reply, listing>>
    /\ UNCHANGED booking

\* the steps of the POST /carriages request in slot p
CarriageStep(p) ==
    \/ \E n \in FleetNumbers, st \in CarriageSeats, t \in TrainIds : PostCarriage(p, n, st, t)
    \/ ValidateCarriage(p)
    \/ InsertCarriage(p)
    \/ RespondCarriage(p)

\* concurrent POST /carriages requests, and an administrator who changes and
\* deletes carriages and deletes trains
NextFleet ==
    \/ \E p \in Requests : CarriageStep(p)
    \/ \E c \in FleetIds, st \in CarriageSeats : AdminUpdateCarriage(c, st)
    \/ \E c \in FleetIds : AdminDeleteCarriage(c)
    \/ \E t \in TrainIds : AdminDeleteTrain(t)

\* every train exists, no carriage does, nothing is booked
InitFleet ==
    /\ trains = TrainIds
    /\ nextTrain = MaxTrains + 1
    /\ carriages = NoRows
    /\ nextCarriage = 1
    /\ journeys = NoRows
    /\ nextJourney = 1
    /\ InitBooking
    /\ InitApi

SpecFleet == InitFleet /\ [][NextFleet]_vars

\* ------------------------------------------------ GET /trains with filters
\* the characters of a name or number: a letter in both cases, and another
Chars == {"a", "A", "b"}

\* the strings of at most n characters
Strings(n) == UNION {[1..k -> Chars] : k \in 0..n}

\* the stored values of a field, and the values of a query parameter
Values == [1..MaxLen -> Chars]
Needles == Strings(MaxLen)

\* SQL UPPER() of a character and of a string
upper(ch) == IF ch = "a" THEN "A" ELSE IF ch = "b" THEN "B" ELSE ch
UPPER(str) == [i \in 1..Len(str) |-> upper(str[i])]

\* the lookup "contains": LIKE '%needle%' on the value as stored
contains(value, needle) ==
    \E i \in 0..(Len(value) - Len(needle)) :
        SubSeq(value, i + 1, i + Len(needle)) = needle

\* the lookup "icontains": UPPER(value) LIKE UPPER('%needle%')
icontains(value, needle) ==
    \E i \in 0..(Len(value) - Len(needle)) :
        SubSeq(UPPER(value), i + 1, i + Len(needle)) = UPPER(needle)

\* queryset.filter(<field>__icontains=param), applied when param is not None
filter(rows, queryset, field, param) ==
    IF param = {} THEN queryset
    ELSE {t \in queryset : icontains(rows[t][field], CHOOSE x \in param : TRUE)}

\* TrainViewSet.get_queryset: the filters on number, name and the name of the
\* train type, one after the other
TrainViewSet_get_queryset(rows, number, name, train_type_name) ==
    LET all == DOMAIN rows
        by_number == filter(rows, all, "number", number)
        by_name == filter(rows, by_number, "name", name)
    IN filter(rows, by_name, "train_type_name", train_type_name)

\* GET /trains?number=..&name=..&train_type_name=.. on the rows stored
FilterTrains ==
    /\ listing.pc = "none"
    /\ \E number, name, train_type_name \in Optional(Needles) :
          listing' = [listing EXCEPT !.pc = "listed", !.number = number, !.name = name,
                                    !.train_type_name = train_type_name,
                                    !.result = TrainViewSet_get_queryset(
                                                   listing.rows, number, name, train_type_name)]
    /\ UNCHANGED <<catalog, routes, creq, reply>>
    /\ UNCHANGED booking

\* the list is sent and the next request may come
RespondListing ==
    /\ listing.pc = "listed"
    /\ listing' = [NoListing EXCEPT !.rows = listing.rows]
    /\ UNCHANGED <<catalog, routes, creq, reply>>
    /\ UNCHANGED booking

NextFilter ==
    \/ FilterTrains
    \/ RespondListing

\* the Train rows are any rows over the values; nothing else is stored
InitFilter ==
    /\ trains = {}
    /\ carriages = NoRows
    /\ journeys = NoRows
    /\ nextTrain = 1
    /\ nextCarriage = 1
    /\ nextJourney = 1
    /\ InitBooking
    /\ routes = NoRows
    /\ creq = [p \in Requests |-> IdleCarriage]
    /\ reply = NoReply
    /\ \E rows \in [1..MaxRows -> [number : Values, name : Values, train_type_name : Values]] :
          listing = [NoListing EXCEPT !.rows = rows]

SpecFilter == InitFilter /\ [][NextFilter]_vars

\* SpecRace: requests served concurrently in all slots over a catalog that
\* stays as the administrators left it: every train exists, the carriages are
\* on train 1 with distinct numbers, the journeys run on any train.
RaceCatalogs ==
    {cat \in [trains : {TrainIds}, carriages : [CarriageIds -> [train : {1},
                                                               number : CarriageNumbers,
                                                               seats : 1..MaxSeats]],
              journeys : [JourneyIds -> [train : TrainIds, departure_time : {0},
                                         arrival_time : {MaxTime}]]] :
        \A c, d \in CarriageIds :
            (cat.carriages[c].train = cat.carriages[d].train
             /\ cat.carriages[c].number = cat.carriages[d].number) => c = d}

InitRace ==
    /\ \E cat \in RaceCatalogs :
         /\ trains = cat.trains
         /\ carriages = cat.carriages
         /\ journeys = cat.journeys
    /\ orders = NoRows
    /\ tickets = {}
    /\ nextTrain = MaxTrains + 1
    /\ nextCarriage = MaxCarriages + 1
    /\ nextJourney = MaxJourneys + 1
    /\ nextOrder = 1
    /\ req = [p \in Requests |-> Idle]
    /\ tx = [p \in Requests |-> NoTx]
    /\ InitApi

NextRace == \E p \in Requests : RequestStep(p) \/ DeadlockAbort(p)

SpecRace == InitRace /\ [][NextRace]_vars

\* one POST /orders request at a time on a catalog nobody changes
NextAlone == RequestStep(1)

SpecAlone == InitRace /\ [][NextAlone]_vars

\* ------------------------------------------------------------ properties
Triple(t) == <<t.carriage, t.seat, t.journey>>
Finished(p) == req[p].pc \in {"done", "failed"}
HasDuplicate(body) == \E i, k \in DOMAIN body : i < k /\ body[i] = body[k]

\* C1: no two distinct persisted tickets have the same (carriage, seat, journey),
\* whatever the interleaving of the order placements.
SeatReservationInvariant ==
    \A t1, t2 \in tickets : t1 # t2 => Triple(t1) # Triple(t2)

\* C1 witness: a ticket is persisted and a concurrent request for its seat, which
\* had passed both existence checks, was stopped by the store's constraint.
SeatRaceStoppedByConstraint ==
    \E p \in Requests :
        /\ req[p].pc = "failed" /\ req[p].at = "insert"
        /\ req[p].code = "SeatAlreadyTaken"
        /\ \E t \in tickets : Triple(t) = Triple(req[p].body[req[p].idx])

\* Slots p and q have both finished a request for the one same seat, which is in
\* the carriage's range and which no order but theirs holds.
SameSeatRequests(p, q) ==
    /\ p # q /\ Finished(p) /\ Finished(q)
    /\ Len(req[p].body) = 1 /\ req[q].body = req[p].body
    /\ LET x == req[p].body[1]
       IN /\ x.carriage \in DOMAIN carriages /\ x.journey \in DOMAIN journeys
          /\ is_seat_number_valid(carriages[x.carriage].seats, x.seat)
          /\ \A t \in tickets : Triple(t) = Triple(x) =>
                 t.order \in {req[p].order, req[q].order} \ {0}

\* C2: of two requests for the same untaken in-range seat, in every interleaving
\* exactly one succeeds and exactly one ticket for the seat is persisted.
ExactlyOneWinsTheSeat ==
    \A p, q \in Requests : SameSeatRequests(p, q) =>
        /\ (req[p].pc = "done") # (req[q].pc = "done")
        /\ Cardinality({t \in tickets : Triple(t) = Triple(req[p].body[1])}) = 1

\* C2 witness: both requests passed the pre-check and full_clean, one committed,
\* the other was refused at its INSERT.
BothPassedChecksOneWon ==
    \E p, q \in Requests :
        /\ SameSeatRequests(p, q)
        /\ req[p].pc = "done"
        /\ req[q].pc = "failed" /\ req[q].at = "insert"

\* C3: a request that passed the pre-check and is refused by the store's
\* uniqueness constraint fails with the validation error of the pre-check.
ConflictIsValidationError ==
    \A p \in Requests :
        (req[p].pc = "failed" /\ req[p].at = "insert" /\ req[p].code = "SeatAlreadyTaken")
            => req[p].err = "ValidationError"

\* C4: every step of a request other than its commit, the failing step of any
\* ticket at any position included, leaves the persisted orders and tickets as
\* they were: a failed request has written nothing.
AllOrNothing ==
    [][\A p \in Requests :
          (req'[p] # req[p] /\ req'[p].pc # "done")
              => (orders' = orders /\ tickets' = tickets)]_vars

\* C4 witness: a request failed at its second ticket, after its Order and its
\* first Ticket had been written in the transaction.
FailedAfterFirstTicketWritten ==
    \E p \in Requests :
        /\ req[p].pc = "failed" /\ req[p].order # 0 /\ req[p].idx = 2
        /\ req[p].order \notin DOMAIN orders

\* C5: a request that names the same (carriage, seat, journey) twice never
\* commits, and none of its tickets is persisted.
DuplicateInRequestFails ==
    \A p \in Requests : HasDuplicate(req[p].body) =>
        /\ req[p].pc \notin {"commit", "done"}
        /\ \A t \in tickets : t.order # req[p].order

\* C5 witness: the duplicate was in range and untaken (both passed the
\* pre-check, the first was inserted) and the request failed at the second.
DuplicateCaughtInTransaction ==
    \E p \in Requests :
        /\ HasDuplicate(req[p].body)
        /\ req[p].pc = "failed" /\ req[p].at = "clean" /\ req[p].idx = 2
        /\ req[p].code = "SeatAlreadyTaken"

\* C6: every persisted ticket's seat lies in 1..seats of its carriage.
SeatWithinCarriage ==
    \A t \in tickets :
        1 <= t.seat /\ t.seat <= carriages[t.carriage].seats

\* C7: for every journey, capacity of its train minus the tickets issued for it
\* is never negative.
AvailabilityNeverNegative ==
    \A j \in DOMAIN journeys : capacity(journeys[j].train) - TicketCount(j) >= 0

\* C8: the reported tickets_available of every journey is Train.capacity of its
\* train minus the number of its tickets, also for a train without carriages.
AvailabilityIsCapacityMinusIssued ==
    \A j \in DOMAIN journeys :
        tickets_available(j) = {capacity(journeys[j].train) - TicketCount(j)}

\* C9: every persisted ticket's carriage belongs to the train of its journey.
ConsistentTrainAssignment ==
    \A t \in tickets : carriages[t.carriage].train = journeys[t.journey].train

\* C10: every persisted order owns at least one ticket.
OrderOwnsTicket ==
    \A o \in DOMAIN orders : \E t \in tickets : t.order = o

\* ---------------------------------------------------------------------------
\* C11  An order request whose list of tickets is empty fails with the
\* validation error EmptyOrder, and the step writes no order and no ticket,
\* neither to the committed tables nor to a transaction.
EmptyOrderRejected ==
    [][\A p \in Requests, u \in Users, ca \in BOOLEAN :
          PlaceOrder(p, u, <<>>, ca) =>
              /\ req'[p].pc = "failed"
              /\ req'[p].err = "ValidationError"
              /\ req'[p].code = "EmptyOrder"
              /\ req'[p].order = 0
              /\ orders' = orders /\ tickets' = tickets /\ tx' = tx]_vars

\* an empty order request was made and refused, with orders already stored
EmptyOrderWasRefused ==
    \E p \in Requests :
        /\ req[p].pc = "failed" /\ req[p].code = "EmptyOrder"
        /\ orders # NoRows

\* ---------------------------------------------------------------------------
\* C12  Listing orders as user u returns the orders owned by u and no order
\* owned by anybody else, and the order a request of u has created is owned
\* by u (and so listed to u and to nobody else).
OrdersListedToOwner ==
    /\ \A u \in Users : \A o \in DOMAIN orders :
           o \in OrderViewSet_get_queryset(u) <=> orders[o].user = u
    /\ \A p \in Requests : req[p].pc = "done" =>
           /\ req[p].order \in DOMAIN orders
           /\ orders[req[p].order].user = req[p].user
           /\ \A u \in Users :
                  req[p].order \in OrderViewSet_get_queryset(u) <=> u = req[p].user

\* a request of one user has created an order while another user owns one too
OrderCreatedBesideAnotherOwners ==
    \E p \in Requests : \E o \in DOMAIN orders :
        /\ req[p].pc = "done"
        /\ orders[o].user # req[p].user
        /\ OrderViewSet_get_queryset(req[p].user) = {req[p].order}

\* ---------------------------------------------------------------------------
\* C13  Every route stored through POST /routes joins two different stations,
\* and a POST /routes whose from_station is its to_station leaves the routes
\* unchanged and, for a caller allowed to create, fails with InvalidRoute.
RoutesJoinDifferentStations ==
    /\ [](\A r \in DOMAIN routes : routes[r].from_station # routes[r].to_station)
    /\ [][\A c \in Callers, f \in StationIds :
             PostRoute(c, f, f) =>
                 /\ routes' = routes
                 /\ reply'.status # 201
                 /\ c = "admin" => (reply'.status = 400 /\ reply'.code = "InvalidRoute")]_vars

\* an administrator's route from a station to itself was refused, with routes stored
LoopRouteRefused ==
    /\ reply.op = "PostRoute" /\ reply.caller = "admin" /\ reply.code = "InvalidRoute"
    /\ routes # NoRows

CatalogWritesAreForStaff ==
    [][/\ (reply'.op \in {"PostTrain", "PostRoute", "PostJourney"} /\ reply'.caller # "admin")
            => /\ reply'.status = IF reply'.caller = "user" THEN 403 ELSE 401
               /\ reply'.code = IF reply'.caller = "user" THEN "Forbidden" ELSE "Unauthorized"
               /\ UNCHANGED <<catalog, routes>>
       /\ ListTrains("anonymous") => (reply'.status = 401 /\ reply'.data = {})
       /\ ListTrains("user") => (reply'.status = 200 /\ reply'.data = trains)
       /\ \A pk \in trains :
             RetrieveTrain("user", pk) => (reply'.status = 200 /\ reply'.data = {pk})]_vars

\* an authenticated caller who is not staff was refused the creation of a train
\* while the catalog held trains, a route and a journey
CreateByUserForbidden ==
    /\ reply.op = "PostTrain" /\ reply.caller = "user" /\ reply.status = 403
    /\ trains # {} /\ routes # NoRows /\ journeys # NoRows

\* ---------------------------------------------------------------------------
\* C15  No two carriages of a train have the same number, also when they are
\* created concurrently, and a POST /carriages that fails while a carriage with
\* its number exists for its train fails with the validation error
\* DuplicateCarriageNumber.
DuplicateNumberIsValidationError ==
    /\ \A c, d \in DOMAIN carriages :
          (carriages[c].train = carriages[d].train
           /\ carriages[c].number = carriages[d].number) => c = d
    /\ \A p \in Requests :
          (creq[p].pc = "failed" /\ CarriageNumberTaken(creq[p].number, creq[p].train))
             => (creq[p].err = "ValidationError" /\ creq[p].code = "DuplicateCarriageNumber")

\* ---------------------------------------------------------------------------
\* C16  A train with no carriage has capacity 0; a step that adds one carriage
\* with s seats to train T raises capacity(T) by exactly s, a step that removes
\* one carriage with s seats lowers it by exactly s, and either leaves the
\* capacity of every other train as it was.
CapacityFollowsCarriages ==
    /\ [](\A t \in TrainIds : CarriagesOf(t) = {} => capacity(t) = 0)
    /\ [][\A c \in FleetIds :
             /\ (c \notin DOMAIN carriages /\ c \in DOMAIN carriages'
                 /\ carriages' = Put(carriages, c, carriages'[c]))
                   => \A t \in TrainIds :
                         capacity(t)' = capacity(t) + IF t = carriages'[c].train
                                                      THEN carriages'[c].seats ELSE 0
             /\ (c \in DOMAIN carriages /\ carriages' = Drop(carriages, {c}))
                   => \A t \in TrainIds :
                         capacity(t)' = capacity(t) - IF t = carriages[c].train
                                                      THEN carriages[c].seats ELSE 0]_vars

\* a train holds two carriages with different seat counts, the second one
\* created by a request that has just been served
SecondCarriageAdded ==
    \E p \in Requests : \E c \in DOMAIN carriages :
        /\ creq[p].pc = "done" /\ creq[p].pk \in DOMAIN carriages /\ c # creq[p].pk
        /\ carriages[c].train = carriages[creq[p].pk].train
        /\ carriages[c].seats > carriages[creq[p].pk].seats
        /\ carriages[creq[p].pk].seats > 0

\* ---------------------------------------------------------------------------
\* C17  Every stored carriage has at least one seat, and no POST /carriages
\* with fewer seats than one is served.
CarriageSeatsAtLeastOne ==
    /\ \A c \in DOMAIN carriages : carriages[c].seats >= 1
    /\ \A p \in Requests : creq[p].pc = "done" => creq[p].seats >= 1

\* ---------------------------------------------------------------------------
\* C20  Every stored ticket references a stored carriage, a stored journey and
\* a stored order, every stored carriage and journey references a stored
\* train, and the step that deletes a train leaves no carriage and no journey
\* of it and no ticket that referenced one of them.
ReferencesResolve ==
    /\ [](/\ \A t \in tickets : /\ t.carriage \in DOMAIN carriages
                                /\ t.journey \in DOMAIN journeys
                                /\ t.order \in DOMAIN orders
          /\ \A c \in DOMAIN carriages : carriages[c].train \in trains
          /\ \A j \in DOMAIN journeys : journeys[j].train \in trains)
    /\ [][\A t \in trains \ trains' :
             /\ \A c \in DOMAIN carriages' : carriages'[c].train # t
             /\ \A j \in DOMAIN journeys' : journeys'[j].train # t
             /\ \A x \in tickets' :
                   /\ carriages[x.carriage].train # t
                   /\ journeys[x.journey].train # t]_vars

\* a train was deleted that had a carriage and a journey with a ticket sold:
\* the order is left without tickets
TrainDeletedWithTicketsSold ==
    /\ orders # NoRows /\ tickets = {}
    /\ trains # {} /\ Cardinality(trains) < nextTrain - 1
    /\ nextCarriage > 1 /\ carriages = NoRows
    /\ nextJourney > 1 /\ journeys = NoRows

\* ---------------------------------------------------------------------------
\* two characters are the same letter, whatever their case
SameLetter(x, y) ==
    \/ x = y
    \/ {x, y} = {"a", "A"}

\* some run of consecutive characters of value spells needle, case ignored
ContainsIgnoringCase(value, needle) ==
    \E k \in 0..Len(value) :
        /\ k + Len(needle) <= Len(value)
        /\ \A m \in 1..Len(needle) : SameLetter(value[k + m], needle[m])

\* the field of the row contains the parameter, if one is given
Matches(row, field, param) ==
    \A needle \in param : ContainsIgnoringCase(row[field], needle)

Placeable(body) ==
    /\ body # <<>>
    /\ ~HasDuplicate(body)
    /\ \A i \in DOMAIN body :
          /\ body[i].carriage \in DOMAIN carriages
          /\ body[i].journey \in DOMAIN journeys
          /\ 1 <= body[i].seat /\ body[i].seat <= carriages[body[i].carriage].seats
          /\ \A t \in tickets : Triple(t) # Triple(body[i])

\* C21  With one request at a time, an order request of user u for such
\* tickets is accepted and never fails; until it commits the stored orders and
\* tickets are as before; its commit adds exactly one order, owned by u, and
\* exactly one ticket of that order per ticket asked for, with the triple
\* asked for, and leaves every other order and ticket and the catalog as
\* they were.
OrderPlacedAsRequested ==
    [][\A p \in Requests :
          /\ \A u \in Users, body \in Bodies, ca \in BOOLEAN :
                (Placeable(body) /\ PlaceOrder(p, u, body, ca))
                   => (req'[p].pc = "validate" /\ req'[p].user = u /\ req'[p].body = body)
          /\ (req[p].pc \in {"validate", "create", "clean", "insert", "commit"}
              /\ Placeable(req[p].body))
                => /\ req'[p].pc # "failed"
                   /\ UNCHANGED catalog
                   /\ req[p].pc # "commit" => (orders' = orders /\ tickets' = tickets)
                   /\ req[p].pc = "commit" =>
                         LET new == req[p].order
                             added == tickets' \ tickets
                         IN /\ req'[p].pc = "done"
                            /\ new \notin DOMAIN orders
                            /\ orders' = Put(orders, new, [user |-> req[p].user])
                            /\ tickets \subseteq tickets'
                            /\ Cardinality(added) = Len(req[p].body)
                            /\ \A x \in added : x.order = new
                            /\ \A i \in DOMAIN req[p].body :
                                  \E x \in added : Triple(x) = Triple(req[p].body[i])]_vars

====
